---- MODULE Spec2Model ----
(***************************************************************************)
(* A model of textdb (src/textdb.py): the in-memory tables, properties and *)
(* rows of a TextDb, the directory tree it saves to and loads from, and    *)
(* the class-level type registry.                                          *)
(*                                                                         *)
(* Strings that the program transforms (row names, table names, content)   *)
(* are sequences of one-character strings, so that format_name, strip and  *)
(* convert are computed and not assumed.  Property names and type names    *)
(* are never transformed and are plain strings.  A Python value is a       *)
(* record [k |-> kind, v |-> payload].  An operation that can raise        *)
(* returns a record whose field exc (or res) names the exception.          *)
(***************************************************************************)
EXTENDS Integers, Sequences, FiniteSets, TLC

VARIABLES
    tables,     \* TextDb._tables: a sequence of tables
    disk,       \* the directory tree under TextDb.path
    typemap,    \* TextTablePropertyType.typemap: the structure of each custom type
    ret         \* the last call: its name and its outcome

vars == <<tables, disk, typemap, ret>>

(***************************************************************************)
(* Bounds of the model.                                                    *)
(***************************************************************************)
MaxProps == 2       \* Spec: user properties of the table
MaxRows == 2        \* Spec: rows of the table
DbMaxTables == 2    \* SpecDb: tables of the database
DbMaxProps == 1     \* SpecDb: user properties per table
DbMaxRows == 1      \* SpecDb: rows per table
TyMaxProps == 1     \* SpecTypes: user properties of the table
TyMaxRows == 1      \* SpecTypes: rows of the table
ConvMaxLen == 3     \* SpecConvert: length of the strings drawn from ConvertChars
StMaxTables == 2    \* SpecStruct: tables of the database
StMaxProps == 2     \* SpecStruct: user properties per table

(***************************************************************************)
(* Python values.                                                          *)
(***************************************************************************)
Str(s) == [k |-> "str", v |-> s]
Bool(b) == [k |-> "bool", v |-> b]
Float(n) == [k |-> "float", v |-> n]
PyInt(n) == [k |-> "int", v |-> n]
List(s) == [k |-> "list", v |-> s]
Time(n) == [k |-> "time", v |-> n]
None == [k |-> "none", v |-> <<>>]

\* type(value)
TypeOf(value) == value.k

\* a local variable: the value is computed once and named in what follows
Bind(value, F(_)) == F(value)

\* str.replace for the three pairs of format_map, one character at a time
\* (no replacement produces a character that a later pair replaces)
RECURSIVE FormatChars(_)
FormatChars(s) ==
    IF s = <<>> THEN <<>>
    ELSE LET c == Head(s)
             r == IF c = " " THEN <<"_">>
                  ELSE IF c = "." THEN <<"-">>
                  ELSE IF c = "/" THEN <<>>
                  ELSE <<c>>
         IN r \o FormatChars(Tail(s))

\* format_name(path): raises AttributeError when path is no str
format_name(value) ==
    IF TypeOf(value) = "str"
    THEN [exc |-> "", val |-> Str(FormatChars(value.v))]
    ELSE [exc |-> "AttributeError", val |-> value]

Whitespace == {" ", "\n", "\t"}

RECURSIVE LStrip(_)
LStrip(s) == IF s # <<>> /\ Head(s) \in Whitespace THEN LStrip(Tail(s)) ELSE s

RECURSIVE RStrip(_)
RStrip(s) ==
    IF s # <<>> /\ s[Len(s)] \in Whitespace THEN RStrip(SubSeq(s, 1, Len(s) - 1)) ELSE s

\* str.strip()
Strip(s) == LStrip(RStrip(s))

DigitChar(d) ==
    CASE d = 0 -> "0" [] d = 1 -> "1" [] d = 2 -> "2" [] d = 3 -> "3" [] d = 4 -> "4"
      [] d = 5 -> "5" [] d = 6 -> "6" [] d = 7 -> "7" [] d = 8 -> "8" [] OTHER -> "9"

\* the decimal digits of a natural number
RECURSIVE Decimal(_)
Decimal(n) == IF n < 10 THEN <<DigitChar(n)>> ELSE Decimal(n \div 10) \o <<DigitChar(n % 10)>>

\* repr of a list of str
RECURSIVE ReprItems(_)
ReprItems(s) ==
    IF s = <<>> THEN <<>>
    ELSE <<"'">> \o s[1].v \o <<"'">>
         \o (IF Len(s) > 1 THEN <<",", " ">> ELSE <<>>) \o ReprItems(Tail(s))

\* str(value), as an f-string formats it
PyStr(value) ==
    CASE TypeOf(value) = "str" -> value.v
      [] TypeOf(value) = "bool" ->
            IF value.v THEN <<"T", "r", "u", "e">> ELSE <<"F", "a", "l", "s", "e">>
      [] TypeOf(value) = "none" -> <<"N", "o", "n", "e">>
      [] TypeOf(value) = "float" -> Decimal(value.v) \o <<".", "0">>
      [] TypeOf(value) = "int" -> Decimal(value.v)
      [] TypeOf(value) = "time" -> <<"0", "0", ":", "0", "0", ":", "0", "0">>
      [] OTHER -> <<"[">> \o ReprItems(value.v) \o <<"]">>

(***************************************************************************)
(* The type registry: TextTablePropertyType.                               *)
(***************************************************************************)
CustomTypes == {"select", "relation", "multiselect"}

TypeNames ==
    {"text", "number", "datetime", "date", "time", "checkbox"} \cup CustomTypes

\* typemap[type_string]: the kind of the core type
CoreKind(tname) ==
    CASE tname = "text" -> "str"
      [] tname = "number" -> "float"
      [] tname = "datetime" -> "datetime"
      [] tname = "date" -> "date"
      [] tname = "time" -> "time"
      [] tname = "checkbox" -> "bool"
      [] tname = "select" -> "int"
      [] OTHER -> "list"

\* the structures the class-level typemap starts with
InitTypemap ==
    [c \in CustomTypes |-> IF c = "relation" THEN Str(<<>>) ELSE List(<<>>)]

\* TextTablePropertyType(type_string): ValueError for an unknown type name
NewPropertyType(tname) ==
    IF tname \in TypeNames
    THEN [exc |-> "", type |-> [obj |-> TRUE, name |-> tname]]
    ELSE [exc |-> "ValueError", type |-> [obj |-> FALSE, name |-> tname]]

is_custom(type) == type.name \in CustomTypes

\* `type(value) != prop.type.object`: a CustomType instance equals no type
TypeMatches(value, type) ==
    ~is_custom(type) /\ TypeOf(value) = CoreKind(type.name)

\* prop.type.default_value: self.object().  A property whose type was replaced
\* by a str (edit_property) has no default_value; datetime() and date() need
\* arguments.
default_value(type) ==
    IF ~type.obj THEN [exc |-> "AttributeError", val |-> None]
    ELSE CASE type.name = "text" -> [exc |-> "", val |-> Str(<<>>)]
           [] type.name = "number" -> [exc |-> "", val |-> Float(0)]
           [] type.name = "checkbox" -> [exc |-> "", val |-> Bool(FALSE)]
           [] type.name = "time" -> [exc |-> "", val |-> Time(0)]
           [] type.name = "select" -> [exc |-> "", val |-> PyInt(0)]
           [] type.name \in {"relation", "multiselect"} -> [exc |-> "", val |-> List(<<>>)]
           [] OTHER -> [exc |-> "TypeError", val |-> None]

Digits == {"0", "1", "2", "3", "4", "5", "6", "7", "8", "9"}

\* str.lower(), on the letters of the alphabet the model draws from
LowerChar(c) ==
    CASE c = "T" -> "t" [] c = "R" -> "r" [] c = "U" -> "u" [] c = "E" -> "e"
      [] c = "F" -> "f" [] c = "A" -> "a" [] c = "L" -> "l" [] c = "S" -> "s"
      [] OTHER -> c

Lower(s) == [i \in DOMAIN s |-> LowerChar(s[i])]

DigitValue(c) ==
    CASE c = "0" -> 0 [] c = "1" -> 1 [] c = "2" -> 2 [] c = "3" -> 3 [] c = "4" -> 4
      [] c = "5" -> 5 [] c = "6" -> 6 [] c = "7" -> 7 [] c = "8" -> 8 [] OTHER -> 9

RECURSIVE DecimalValue(_)
DecimalValue(s) ==
    IF s = <<>> THEN 0
    ELSE 10 * DecimalValue(SubSeq(s, 1, Len(s) - 1)) + DigitValue(s[Len(s)])

\* TextTablePropertyType.convert(value), value a str
convert(s) ==
    IF Lower(s) = <<"f", "a", "l", "s", "e">> THEN Bool(FALSE)
    ELSE IF Lower(s) = <<"t", "r", "u", "e">> THEN Bool(TRUE)
    ELSE IF s # <<>> /\ \A i \in DOMAIN s : s[i] \in Digits THEN Float(DecimalValue(s))
    ELSE None

(***************************************************************************)
(* Rows.  cols is an ordered dict: a sequence of [key, val].  formats says *)
(* whether cols is still a TextTableCols (which formats the name on        *)
(* assignment) or a plain dict.  attr holds the instance attribute         *)
(* `content`, once one was assigned: <<>> or <<value>>.                     *)
(***************************************************************************)
Keys(cols) == [i \in DOMAIN cols |-> cols[i].key]

KeySet(cols) == {cols[i].key : i \in DOMAIN cols}

Has(cols, key) == key \in KeySet(cols)

\* dict.__getitem__ of a key the dict has
Get(cols, key) ==
    cols[CHOOSE i \in DOMAIN cols : cols[i].key = key /\ \A j \in 1..(i - 1) : cols[j].key # key].val

\* dict.__setitem__: an existing key keeps its place
DictSet(cols, key, value) ==
    IF Has(cols, key)
    THEN [i \in DOMAIN cols |-> IF cols[i].key = key THEN [key |-> key, val |-> value] ELSE cols[i]]
    ELSE Append(cols, [key |-> key, val |-> value])

DictDel(cols, key) == SelectSeq(cols, LAMBDA c : c.key # key)

\* TextTableRow(parent_table, name)
NewRow == [cols |-> <<>>, formats |-> TRUE, attr |-> <<>>]

\* row.cols[key] = value
RowSetItem(row, key, value) ==
    IF row.formats /\ key = "name"
    THEN Bind(format_name(value), LAMBDA f :
            IF f.exc # "" THEN [exc |-> f.exc, row |-> row]
            ELSE [exc |-> "", row |-> [row EXCEPT !.cols = DictSet(row.cols, key, f.val)]])
    ELSE [exc |-> "", row |-> [row EXCEPT !.cols = DictSet(row.cols, key, value)]]

(***************************************************************************)
(* Tables: [name, props, rows].  A property is [name, type]; its type is   *)
(* [obj, name]: obj is FALSE once edit_property stored a bare str there.   *)
(***************************************************************************)
protected_properties == {"name", "content"}

\* TextTable(parent_db, name)
NewTable(name) ==
    [name |-> name,
     props |-> << [name |-> "name", type |-> [obj |-> TRUE, name |-> "text"]],
                  [name |-> "content", type |-> [obj |-> TRUE, name |-> "text"]] >>,
     rows |-> <<>>]

get_property_names(t) == [i \in DOMAIN t.props |-> t.props[i].name]

PropNameSet(t) == {t.props[i].name : i \in DOMAIN t.props}

\* _get_property_index(name): 0 stands for None
get_property_index(t, name) ==
    IF name \in PropNameSet(t)
    THEN CHOOSE i \in DOMAIN t.props :
            t.props[i].name = name /\ \A j \in 1..(i - 1) : t.props[j].name # name
    ELSE 0

\* get_property(name), for a name the table has
get_property(t, name) == t.props[get_property_index(t, name)]

\* `row.cols[property_name] = prop.type.default_value` for each queued name;
\* stops at the first exception
RECURSIVE AddDefaults(_, _, _)
AddDefaults(t, row, queue) ==
    IF queue = <<>> THEN [exc |-> "", row |-> row]
    ELSE Bind(default_value(get_property(t, Head(queue)).type), LAMBDA d :
            IF d.exc # "" THEN [exc |-> d.exc, row |-> row]
            ELSE Bind(RowSetItem(row, Head(queue), d.val), LAMBDA s :
                    IF s.exc # "" THEN s ELSE AddDefaults(t, s.row, Tail(queue))))

\* the body of _update_rows' loop, for one row: delete, then add
UpdateRow(t, row) ==
    LET names == get_property_names(t)
        kept == [row EXCEPT !.cols = SelectSeq(row.cols, LAMBDA c : c.key \in PropNameSet(t))]
        add_queue == SelectSeq(names, LAMBDA n : ~Has(row.cols, n))
    IN AddDefaults(t, kept, add_queue)

\* _update_rows(): the rows of t from index i on; an exception leaves the
\* later rows as they were
RECURSIVE update_rows(_, _)
update_rows(t, i) ==
    IF i > Len(t.rows) THEN [exc |-> "", rows |-> t.rows]
    ELSE Bind(UpdateRow(t, t.rows[i]), LAMBDA u :
            IF u.exc # "" THEN [exc |-> u.exc, rows |-> [t.rows EXCEPT ![i] = u.row]]
            ELSE update_rows([t EXCEPT !.rows[i] = u.row], i + 1))

Outcome(exc) == IF exc = "" THEN "None" ELSE exc

\* the structure argument left out (or falsy)
NoStructure == None

\* add_property(property_name, property_type, structure)
add_property(t, tm, property_name, property_type, structure) ==
    IF property_name \in protected_properties THEN [res |-> "False", t |-> t, tm |-> tm]
    ELSE Bind(NewPropertyType(property_type), LAMBDA ty :
            IF ty.exc # "" THEN [res |-> ty.exc, t |-> t, tm |-> tm]
            ELSE Bind([t EXCEPT !.props = Append(@, [name |-> property_name, type |-> ty.type])],
                      LAMBDA t2 :
                    Bind(update_rows(t2, 1), LAMBDA u :
                       [res |-> Outcome(u.exc),
                        t |-> [t2 EXCEPT !.rows = u.rows],
                        tm |-> IF structure # NoStructure /\ is_custom(ty.type)
                               THEN [tm EXCEPT ![property_type] = structure]
                               ELSE tm])))

\* a del_property without the test for protected properties
DelPropertyUnprotected(t, property_name) ==
    Bind(get_property_index(t, property_name), LAMBDA index :
       IF index = 0 THEN [res |-> "TypeError", t |-> t]
       ELSE Bind([t EXCEPT !.props = SubSeq(@, 1, index - 1) \o SubSeq(@, index + 1, Len(@))],
                 LAMBDA t2 :
               Bind(update_rows(t2, 1), LAMBDA u :
                  [res |-> Outcome(u.exc), t |-> [t2 EXCEPT !.rows = u.rows]])))

\* del_property(property_name)
del_property(t, property_name) ==
    IF property_name \in protected_properties THEN [res |-> "False", t |-> t]
    ELSE LET index == get_property_index(t, property_name)
         IN IF index = 0 THEN [res |-> "TypeError", t |-> t]
            ELSE LET t2 == [t EXCEPT !.props =
                                SubSeq(@, 1, index - 1) \o SubSeq(@, index + 1, Len(@))]
                     u == update_rows(t2, 1)
                 IN [res |-> Outcome(u.exc), t |-> [t2 EXCEPT !.rows = u.rows]]

\* the new_cols that edit_property's inner loop builds for one row: every key
\* of the row, the edited one replaced, each holding row.cols[property_name]
RECURSIVE RenamedCols(_, _, _, _)
RenamedCols(keys, property_name, new_name, value) ==
    IF keys = <<>> THEN <<>>
    ELSE LET rest == RenamedCols(SubSeq(keys, 1, Len(keys) - 1), property_name, new_name, value)
             key == keys[Len(keys)]
         IN DictSet(rest, IF key = property_name THEN new_name ELSE key, value)

\* one row of edit_property's loop.  kwargs is [name, type], each <<>> when
\* absent; kwargs['name'] and row.cols[property_name] raise KeyError
RenameRow(row, property_name, kwargs) ==
    IF row.cols = <<>> THEN [exc |-> "", row |-> [row EXCEPT !.formats = FALSE]]
    ELSE IF ~Has(row.cols, property_name) \/ kwargs.name = <<>>
    THEN [exc |-> "KeyError", row |-> row]
    ELSE [exc |-> "",
          row |-> [row EXCEPT
                     !.cols = RenamedCols(Keys(row.cols), property_name, kwargs.name[1],
                                          Get(row.cols, property_name)),
                     !.formats = FALSE]]

RECURSIVE RenameRows(_, _, _, _)
RenameRows(rows, i, property_name, kwargs) ==
    IF i > Len(rows) THEN [exc |-> "", rows |-> rows]
    ELSE LET r == RenameRow(rows[i], property_name, kwargs)
         IN IF r.exc # "" THEN [exc |-> r.exc, rows |-> rows]
            ELSE RenameRows([rows EXCEPT ![i] = r.row], i + 1, property_name, kwargs)

\* edit_property(property_name, **kwargs)
edit_property(t, property_name, kwargs) ==
    IF property_name \in protected_properties THEN [res |-> "False", t |-> t]
    ELSE LET index == get_property_index(t, property_name)
         IN IF index = 0 THEN [res |-> "TypeError", t |-> t]
            ELSE LET p1 == IF kwargs.name # <<>>
                           THEN [t.props[index] EXCEPT !.name = kwargs.name[1]]
                           ELSE t.props[index]
                     p2 == IF kwargs.type # <<>>
                           THEN [p1 EXCEPT !.type = [obj |-> FALSE, name |-> kwargs.type[1]]]
                           ELSE p1
                     r == RenameRows(t.rows, 1, property_name, kwargs)
                 IN [res |-> Outcome(r.exc),
                     t |-> [t EXCEPT !.props[index] = p2, !.rows = r.rows]]

(***************************************************************************)
(* Row operations of a table.  args is the sequence of positional          *)
(* arguments, kwargs an ordered dict (a sequence of [key, val]).           *)
(***************************************************************************)
\* {a: b} | kwargs
RECURSIVE DictUnion(_, _)
DictUnion(d, kwargs) ==
    IF kwargs = <<>> THEN d
    ELSE DictUnion(DictSet(d, Head(kwargs).key, Head(kwargs).val), Tail(kwargs))

\* kwargs[prop_names[index]] = arg, for each positional argument
RECURSIVE PositionalKwargs(_, _, _)
PositionalKwargs(prop_names, args, n) ==
    IF n = 0 THEN <<>>
    ELSE DictSet(PositionalKwargs(prop_names, args, n - 1), prop_names[n], args[n])

\* the keyword arguments add_row works with; IndexError when there are more
\* positional arguments than properties
AddRowKwargs(t, args, kwargs) ==
    IF Len(args) > 0 /\ Len(kwargs) = 0
    THEN IF Len(args) > Len(t.props) THEN [exc |-> "IndexError", kwargs |-> <<>>]
         ELSE [exc |-> "", kwargs |-> PositionalKwargs(get_property_names(t), args, Len(args))]
    ELSE IF Len(args) = 1 /\ Len(kwargs) > 0
    THEN [exc |-> "", kwargs |-> DictUnion(<<[key |-> "name", val |-> args[1]]>>, kwargs)]
    ELSE [exc |-> "", kwargs |-> kwargs]

\* a duplicate check that compares the name as given, without format_name
DuplicateCheckUnformatted(t, name) ==
    IF t.rows = <<>> THEN "new"
    ELSE IF \E i \in DOMAIN t.rows : Get(t.rows[i].cols, "name") = name
    THEN "dup"
    ELSE "new"

\* `for row in self._rows: if row['name'] == format_name(kwargs['name'])`:
\* "dup" a row has the formatted name, "new" none has, or format_name raised
DuplicateCheck(t, name) ==
    IF t.rows = <<>> THEN "new"
    ELSE Bind(format_name(name), LAMBDA f :
            IF f.exc # "" THEN f.exc
            ELSE IF \E i \in DOMAIN t.rows : Get(t.rows[i].cols, "name") = f.val
            THEN "dup"
            ELSE "new")

\* the value add_row stores for a keyword argument
OverlayValue(prop, value) ==
    IF TypeMatches(value, prop.type) THEN [exc |-> "", val |-> value]
    ELSE IF TypeOf(value) = "str" THEN [exc |-> "", val |-> convert(value.v)]
    ELSE IF is_custom(prop.type) THEN [exc |-> "", val |-> value]
    ELSE IF value = None THEN [exc |-> "", val |-> value]
    ELSE [exc |-> "TypeError", val |-> value]

\* `for prop_name, value in kwargs.items()`: load the kwargs into the new row
RECURSIVE Overlay(_, _, _)
Overlay(t, row, kwargs) ==
    IF kwargs = <<>> THEN [exc |-> "", row |-> row]
    ELSE Bind(Head(kwargs).key, LAMBDA prop_name :
            IF prop_name \notin PropNameSet(t) THEN Overlay(t, row, Tail(kwargs))
            ELSE Bind(OverlayValue(get_property(t, prop_name), Head(kwargs).val), LAMBDA o :
                    IF o.exc # "" THEN [exc |-> o.exc, row |-> row]
                    ELSE Bind(RowSetItem(row, prop_name, o.val), LAMBDA s :
                            IF s.exc # "" THEN s ELSE Overlay(t, s.row, Tail(kwargs)))))

\* add_row(*args, **kwargs)
add_row(t, args, kwargs) ==
    Bind(AddRowKwargs(t, args, kwargs), LAMBDA kw :
       IF kw.exc # "" THEN [res |-> kw.exc, t |-> t]
       ELSE IF ~Has(kw.kwargs, "name") THEN [res |-> "ValueError", t |-> t]
       ELSE Bind(DuplicateCheck(t, Get(kw.kwargs, "name")), LAMBDA dup :
               IF dup = "dup" THEN [res |-> "False", t |-> t]
               ELSE IF dup # "new" THEN [res |-> dup, t |-> t]
               ELSE Bind(AddDefaults(t, NewRow, get_property_names(t)), LAMBDA d :
                       IF d.exc # "" THEN [res |-> d.exc, t |-> t]
                       ELSE Bind(Overlay(t, d.row, kw.kwargs), LAMBDA o :
                               IF o.exc # "" THEN [res |-> o.exc, t |-> t]
                               ELSE [res |-> "None",
                                     t |-> [t EXCEPT !.rows = Append(@, o.row)]]))))

\* _get_row_index(target_property, target_value): 0 stands for None;
\* row.cols[target_property] raises KeyError on a row without that column
get_row_index(t, target_property, target_value) ==
    LET hit(i) == Has(t.rows[i].cols, target_property)
                    /\ Get(t.rows[i].cols, target_property) = target_value
        bad(i) == ~Has(t.rows[i].cols, target_property)
        first == {i \in DOMAIN t.rows : (hit(i) \/ bad(i)) /\ \A j \in 1..(i - 1) : ~hit(j) /\ ~bad(j)}
    IN IF first = {} THEN [exc |-> "", index |-> 0]
       ELSE LET i == CHOOSE i \in first : TRUE
            IN IF bad(i) THEN [exc |-> "KeyError", index |-> 0] ELSE [exc |-> "", index |-> i]

\* get_row(args): the single-argument form, by name
get_row(t, row_name) == get_row_index(t, "name", row_name)

\* edit_row's loop over kwargs on one row; an exception keeps what was done
RECURSIVE EditCols(_, _)
EditCols(row, kwargs) ==
    IF kwargs = <<>> THEN [exc |-> "", row |-> row]
    ELSE LET key == Head(kwargs).key
             value == Head(kwargs).val
         IN IF key = "content"
            THEN IF TypeOf(value) # "str" THEN [exc |-> "AttributeError", row |-> row]
                 ELSE EditCols([row EXCEPT !.attr = <<Str(Strip(value.v))>>], Tail(kwargs))
            ELSE IF Has(row.cols, key)
            THEN LET s == RowSetItem(row, key, value)
                 IN IF s.exc # "" THEN s ELSE EditCols(s.row, Tail(kwargs))
            ELSE EditCols(row, Tail(kwargs))

\* an edit_row that returns None when no row has the name
EditRowIgnoringMiss(t, row_name, kwargs) ==
    Bind(get_row(t, row_name), LAMBDA g :
       IF g.exc # "" THEN [res |-> g.exc, t |-> t]
       ELSE IF g.index = 0 THEN [res |-> "None", t |-> t]
       ELSE Bind(EditCols(t.rows[g.index], kwargs), LAMBDA e :
               [res |-> Outcome(e.exc), t |-> [t EXCEPT !.rows[g.index] = e.row]]))

\* edit_row(row_name, **kwargs)
edit_row(t, row_name, kwargs) ==
    LET g == get_row(t, row_name)
    IN IF g.exc # "" THEN [res |-> g.exc, t |-> t]
       ELSE IF g.index = 0 THEN [res |-> "IndexError", t |-> t]
       ELSE LET e == EditCols(t.rows[g.index], kwargs)
            IN [res |-> Outcome(e.exc), t |-> [t EXCEPT !.rows[g.index] = e.row]]

\* delete_row(row_name)
delete_row(t, row_name) ==
    LET g == get_row_index(t, "name", row_name)
    IN IF g.exc # "" THEN [res |-> g.exc, t |-> t]
       ELSE IF g.index = 0 THEN [res |-> "False", t |-> t]
       ELSE [res |-> "None",
             t |-> [t EXCEPT !.rows = SubSeq(@, 1, g.index - 1) \o SubSeq(@, g.index + 1, Len(@))]]

(***************************************************************************)
(* The database and its directory tree.                                    *)
(*   disk.root      the directory TextDb.path exists                       *)
(*   disk.propsdir  <path>/.properties exists                              *)
(*   disk.dirs      directory name -> (file stem -> file): the other       *)
(*                  directories under the root and their `stem`.md files   *)
(*   disk.descs     name -> descriptor: the files .properties/`name`.yaml  *)
(* A row file is [kind, header, body]: "empty" is a file of zero bytes,    *)
(* "header" reads "---\n" yaml(header) "---\n" body, "plain" is the body    *)
(* alone.                                                                  *)
(* A descriptor is [kind, map], map: property name -> [type, structure].   *)
(* The yaml encoder is taken to write a mapping that the decoder reads     *)
(* back as the same mapping, keys sorted; it cannot represent a time.      *)
(***************************************************************************)
EmptyDisk == [root |-> FALSE, propsdir |-> FALSE, dirs |-> <<>>, descs |-> <<>>]

EmptyFile == [kind |-> "empty", header |-> <<>>, body |-> <<>>]

\* f with key mapped to value
Put(f, key, value) == [x \in DOMAIN f \cup {key} |-> IF x = key THEN value ELSE f[x]]

\* f without the keys of gone
Without(f, gone) == [x \in DOMAIN f \ gone |-> f[x]]

\* every sequence that lists each element of S once: the orders os.listdir may give
Orders(S) ==
    {p \in [1..Cardinality(S) -> S] : \A i, j \in 1..Cardinality(S) : i # j => p[i] # p[j]}

\* get_table_names()
get_table_names(tabs) == [i \in DOMAIN tabs |-> tabs[i].name]

TableNameSet(tabs) == {tabs[i].name : i \in DOMAIN tabs}

\* get_table(table_name), for a name the database has: the first of that name
get_table(tabs, table_name) ==
    tabs[CHOOSE i \in DOMAIN tabs :
            tabs[i].name = table_name /\ \A j \in 1..(i - 1) : tabs[j].name # table_name]

\* add_table(table_name)
add_table(tabs, table_name) == Append(tabs, NewTable(table_name))

\* delete_table(table_name): the first table of that name, if any
delete_table(tabs, table_name) ==
    IF table_name \notin TableNameSet(tabs) THEN tabs
    ELSE LET index == CHOOSE i \in DOMAIN tabs :
                        tabs[i].name = table_name /\ \A j \in 1..(i - 1) : tabs[j].name # table_name
         IN SubSeq(tabs, 1, index - 1) \o SubSeq(tabs, index + 1, Len(tabs))

\* os.path.splitext(row_filename)[0] of the file `stem`.md: a leading dot
\* starts no extension
SplitextStem(stem) == IF stem = <<>> THEN <<".", "m", "d">> ELSE stem

\* save(), the scan of the directories under the root in listdir order `order`:
\* a directory that is no table is removed with its descriptor, and iterating
\* get_table(folder_name), which is None, raises TypeError; a table's
\* directory loses the files that are no row's name
RECURSIVE ScanFolders(_, _, _)
ScanFolders(tabs, d, order) ==
    IF order = <<>> THEN [exc |-> "", disk |-> d]
    ELSE LET folder_name == Head(order)
         IN IF folder_name \notin TableNameSet(tabs)
            THEN [exc |-> "TypeError",
                  disk |-> [d EXCEPT !.dirs = Without(@, {folder_name}),
                                     !.descs = Without(@, {folder_name})]]
            ELSE LET table == get_table(tabs, folder_name)
                     row_names == {Get(table.rows[i].cols, "name") : i \in DOMAIN table.rows}
                     stale == {stem \in DOMAIN d.dirs[folder_name] :
                                 Str(SplitextStem(stem)) \notin row_names}
                 IN ScanFolders(tabs,
                                [d EXCEPT !.dirs[folder_name] = Without(@, stale)],
                                Tail(order))

\* open(f"{path}/.properties/{table.name}.yaml", 'w'): a name with a directory
\* part names a directory that .properties does not hold; leading slashes
\* collapse.  The file's stem, or FileNotFoundError.
RECURSIVE DescriptorStem(_)
DescriptorStem(name) ==
    IF name # <<>> /\ Head(name) = "/" THEN DescriptorStem(Tail(name))
    ELSE IF \E i \in DOMAIN name : name[i] = "/" THEN [exc |-> "FileNotFoundError", stem |-> name]
    ELSE [exc |-> "", stem |-> name]

\* properties_simple of save(): AttributeError at a property whose type is a str
RECURSIVE PropertiesSimple(_, _, _)
PropertiesSimple(props, tm, n) ==
    IF n = 0 THEN [exc |-> "", map |-> <<>>]
    ELSE Bind(PropertiesSimple(props, tm, n - 1), LAMBDA before :
         Bind(props[n], LAMBDA prop :
            IF before.exc # "" THEN before
            ELSE IF ~prop.type.obj THEN [exc |-> "AttributeError", map |-> before.map]
            ELSE [exc |-> "",
                  map |-> Put(before.map, prop.name,
                              [type |-> prop.type.name,
                               structure |-> IF is_custom(prop.type)
                                             THEN tm[prop.type.name] ELSE NoStructure])]))

\* convert_to_markdown(): the header is the cols without the protected ones
\* (the comparison of cols.keys() with the tuple never finds them equal), the
\* body is str(cols['content']); yaml raises on a time.  A row of no columns
\* is written as its content attribute alone.
convert_to_markdown(row) ==
    LET dump_cols == SelectSeq(row.cols, LAMBDA c : c.key \notin protected_properties)
        header == [key \in KeySet(dump_cols) |-> Get(dump_cols, key)]
    IN IF row.cols = <<>>
       THEN IF row.attr = <<>> THEN [exc |-> "KeyError", file |-> EmptyFile]
            ELSE [exc |-> "",
                  file |-> [kind |-> "plain", header |-> <<>>, body |-> PyStr(row.attr[1])]]
       ELSE IF \E key \in DOMAIN header : TypeOf(header[key]) = "time"
       THEN [exc |-> "RepresenterError", file |-> EmptyFile]
       ELSE [exc |-> "",
             file |-> [kind |-> "header", header |-> header,
                       body |-> PyStr(Get(row.cols, "content"))]]

\* `for row in table: open(resolve_path(row), 'w'); write(convert_to_markdown())`
RECURSIVE WriteRows(_, _, _, _)
WriteRows(dirname, rows, d, i) ==
    IF i > Len(rows) THEN [exc |-> "", disk |-> d]
    ELSE Bind(format_name(Get(rows[i].cols, "name")), LAMBDA f :
            IF f.exc # "" THEN [exc |-> f.exc, disk |-> d]
            ELSE Bind(convert_to_markdown(rows[i]), LAMBDA md :
                    IF md.exc # ""
                    THEN [exc |-> md.exc,
                          disk |-> [d EXCEPT !.dirs[dirname] = Put(@, f.val.v, EmptyFile)]]
                    ELSE WriteRows(dirname, rows,
                                   [d EXCEPT !.dirs[dirname] = Put(@, f.val.v, md.file)],
                                   i + 1)))

\* save(), the loop over the in-memory tables from index i on
RECURSIVE WriteTables(_, _, _, _)
WriteTables(tabs, tm, d, i) ==
    IF i > Len(tabs) THEN [exc |-> "", disk |-> d]
    ELSE Bind(tabs[i], LAMBDA table :
         Bind(FormatChars(table.name), LAMBDA dirname :
         Bind(IF dirname \in DOMAIN d.dirs THEN d
              ELSE [d EXCEPT !.dirs = Put(@, dirname, <<>>)], LAMBDA d1 :
         Bind(DescriptorStem(table.name), LAMBDA ds :
            IF ds.exc # "" THEN [exc |-> ds.exc, disk |-> d1]
            ELSE Bind(PropertiesSimple(table.props, tm, Len(table.props)), LAMBDA simple :
                    IF simple.exc # ""
                    THEN [exc |-> simple.exc,
                          disk |-> [d1 EXCEPT !.descs =
                                      Put(@, ds.stem, [kind |-> "empty", map |-> <<>>])]]
                    ELSE Bind(WriteRows(dirname, table.rows,
                                        [d1 EXCEPT !.descs =
                                           Put(@, ds.stem, [kind |-> "map", map |-> simple.map])],
                                        1), LAMBDA w :
                            IF w.exc # "" THEN w ELSE WriteTables(tabs, tm, w.disk, i + 1)))))))

\* save(), with `order` the order in which os.listdir gives the directories
save(tabs, tm, d, order) ==
    Bind(ScanFolders(tabs, [d EXCEPT !.root = TRUE, !.propsdir = TRUE], order), LAMBDA scan :
       IF scan.exc # "" THEN [res |-> scan.exc, disk |-> scan.disk]
       ELSE Bind(WriteTables(tabs, tm, scan.disk, 1), LAMBDA w :
               [res |-> IF w.exc # "" THEN w.exc ELSE "True", disk |-> w.disk]))

(***************************************************************************)
(* load().                                                                 *)
(***************************************************************************)
\* the property names of the model, in the order yaml sorts keys
PropUniverse == <<"a", "b", "c", "content", "name">>

SortedKeys(S) == SelectSeq(PropUniverse, LAMBDA n : n \in S)

\* load_properties(): add_property for every entry of the descriptor
RECURSIVE LoadProperties(_, _, _, _)
LoadProperties(t, tm, map, keys) ==
    IF keys = <<>> THEN [exc |-> "", t |-> t, tm |-> tm]
    ELSE Bind(add_property(t, tm, Head(keys), map[Head(keys)].type, map[Head(keys)].structure),
              LAMBDA a :
            IF a.res \notin {"None", "False"} THEN [exc |-> a.res, t |-> a.t, tm |-> a.tm]
            ELSE LoadProperties(a.t, a.tm, map, Tail(keys)))

load_properties(t, tm, d) ==
    IF t.name \notin DOMAIN d.descs \/ d.descs[t.name].kind = "empty"
    THEN [exc |-> "", t |-> t, tm |-> tm]
    ELSE LoadProperties(t, tm, d.descs[t.name].map, SortedKeys(DOMAIN d.descs[t.name].map))

\* what follows the first line of a text
RECURSIVE AfterFirstLine(_)
AfterFirstLine(s) ==
    IF s = <<>> THEN <<>>
    ELSE IF Head(s) = "\n" THEN Tail(s)
    ELSE AfterFirstLine(Tail(s))

\* load_row_file(filepath): the keyword arguments it hands to add_row.  The
\* file is stripped; with a header block the content is what follows the
\* closing marker, without one it is file_lines[1:]
RowFileKwargs(stem, file) ==
    Bind(SortedKeys(DOMAIN file.header), LAMBDA keys :
       [i \in 1..Len(keys) |-> [key |-> keys[i], val |-> file.header[keys[i]]]]
          \o << [key |-> "name", val |-> Str(stem)],
                [key |-> "content",
                 val |-> Str(CASE file.kind = "header" -> RStrip(file.body)
                           [] file.kind = "plain" -> AfterFirstLine(Strip(file.body))
                           [] OTHER -> <<>>)] >>)

\* TextTable.load(), the loop over the directory's files in the order `stems`
RECURSIVE LoadRows(_, _, _)
LoadRows(t, files, stems) ==
    IF stems = <<>> THEN [exc |-> "", t |-> t]
    ELSE Bind(add_row(t, <<>>, RowFileKwargs(Head(stems), files[Head(stems)])), LAMBDA a :
            IF a.res \notin {"None", "False"} THEN [exc |-> a.res, t |-> a.t]
            ELSE LoadRows(a.t, files, Tail(stems)))

\* load(), the loop over the root's directories in the order `order`;
\* row_orders gives the order of each directory's files.  A table is appended
\* once it is loaded; an exception ends the load
RECURSIVE LoadTables(_, _, _, _, _)
LoadTables(tabs, tm, d, order, row_orders) ==
    IF order = <<>> THEN [exc |-> "", tables |-> tabs, tm |-> tm]
    ELSE Bind(Head(order), LAMBDA table_name :
            IF table_name # <<>> /\ table_name[1] = "."
            THEN LoadTables(tabs, tm, d, Tail(order), row_orders)
            ELSE Bind(load_properties(NewTable(table_name), tm, d), LAMBDA p :
                 Bind(FormatChars(table_name), LAMBDA dirname :
                    IF p.exc # "" THEN [exc |-> p.exc, tables |-> tabs, tm |-> p.tm]
                    ELSE IF dirname \notin DOMAIN d.dirs
                    THEN [exc |-> "FileNotFoundError", tables |-> tabs, tm |-> p.tm]
                    ELSE Bind(LoadRows(p.t, d.dirs[dirname], row_orders[dirname]), LAMBDA r :
                            IF r.exc # "" THEN [exc |-> r.exc, tables |-> tabs, tm |-> p.tm]
                            ELSE LoadTables(Append(tabs, r.t), p.tm, d, Tail(order),
                                            row_orders)))))

\* load()
load(tm, d, order, row_orders) ==
    IF ~d.root THEN [res |-> "False", tables |-> <<>>, tm |-> tm]
    ELSE Bind(LoadTables(<<>>, tm, d, order, row_orders), LAMBDA l :
            [res |-> IF l.exc # "" THEN l.exc ELSE "self", tables |-> l.tables, tm |-> l.tm])

\* the orders in which os.listdir may give each directory's files
RowOrders(d) ==
    {f \in [DOMAIN d.dirs -> UNION {Orders(DOMAIN d.dirs[x]) : x \in DOMAIN d.dirs}] :
        \A x \in DOMAIN d.dirs : f[x] \in Orders(DOMAIN d.dirs[x])}

(***************************************************************************)
(* The calls, as actions.  ret records the call and its outcome: the       *)
(* value returned ("None", "False", "True", "self") or the exception.      *)
(***************************************************************************)
Call(op, res) == [op |-> op, res |-> res]

\* tables[i].add_property(property_name, property_type, structure)
AddProperty(i, property_name, property_type, structure) ==
    /\ i \in DOMAIN tables
    /\ LET r == add_property(tables[i], typemap, property_name, property_type, structure)
       IN /\ tables' = [tables EXCEPT ![i] = r.t]
          /\ typemap' = r.tm
          /\ ret' = Call("add_property", r.res)
    /\ UNCHANGED disk

\* tables[i].edit_property(property_name, **kwargs)
EditProperty(i, property_name, kwargs) ==
    /\ i \in DOMAIN tables
    /\ LET r == edit_property(tables[i], property_name, kwargs)
       IN /\ tables' = [tables EXCEPT ![i] = r.t]
          /\ ret' = Call("edit_property", r.res)
    /\ UNCHANGED <<disk, typemap>>

\* tables[i].del_property(property_name)
DelProperty(i, property_name) ==
    /\ i \in DOMAIN tables
    /\ LET r == del_property(tables[i], property_name)
       IN /\ tables' = [tables EXCEPT ![i] = r.t]
          /\ ret' = Call("del_property", r.res)
    /\ UNCHANGED <<disk, typemap>>

\* tables[i].add_row(*args, **kwargs)
AddRow(i, args, kwargs) ==
    /\ i \in DOMAIN tables
    /\ LET r == add_row(tables[i], args, kwargs)
       IN /\ tables' = [tables EXCEPT ![i] = r.t]
          /\ ret' = Call("add_row", r.res)
    /\ UNCHANGED <<disk, typemap>>

\* tables[i].edit_row(row_name, **kwargs)
EditRow(i, row_name, kwargs) ==
    /\ i \in DOMAIN tables
    /\ LET r == edit_row(tables[i], row_name, kwargs)
       IN /\ tables' = [tables EXCEPT ![i] = r.t]
          /\ ret' = Call("edit_row", r.res)
    /\ UNCHANGED <<disk, typemap>>

\* tables[i].get_row(row_name): the result is "row" when a row is returned
GetRow(i, row_name) ==
    /\ i \in DOMAIN tables
    /\ LET g == get_row(tables[i], row_name)
       IN ret' = Call("get_row", IF g.exc # "" THEN g.exc
                                 ELSE IF g.index = 0 THEN "None" ELSE "row")
    /\ UNCHANGED <<tables, disk, typemap>>

\* tables[i].delete_row(row_name)
DeleteRow(i, row_name) ==
    /\ i \in DOMAIN tables
    /\ LET r == delete_row(tables[i], row_name)
       IN /\ tables' = [tables EXCEPT ![i] = r.t]
          /\ ret' = Call("delete_row", r.res)
    /\ UNCHANGED <<disk, typemap>>

\* db.add_table(table_name)
AddTable(table_name) ==
    /\ tables' = add_table(tables, table_name)
    /\ ret' = Call("add_table", "None")
    /\ UNCHANGED <<disk, typemap>>

\* a delete_table that removes the table's directory at once
DeleteTableOnDisk(table_name) ==
    /\ tables' = delete_table(tables, table_name)
    /\ disk' = [disk EXCEPT !.dirs = Without(@, {FormatChars(table_name)})]
    /\ ret' = Call("delete_table", "None")
    /\ UNCHANGED typemap

\* db.delete_table(table_name)
DeleteTable(table_name) ==
    /\ tables' = delete_table(tables, table_name)
    /\ ret' = Call("delete_table", "None")
    /\ UNCHANGED <<disk, typemap>>

\* db.save()
Save ==
    /\ \E order \in Orders(DOMAIN disk.dirs) :
         LET r == save(tables, typemap, disk, order)
         IN /\ disk' = r.disk
            /\ ret' = Call("save", r.res)
    /\ UNCHANGED <<tables, typemap>>

\* db.load(), which TextDb(path) runs on construction
Load ==
    /\ \E order \in Orders(DOMAIN disk.dirs) : \E row_orders \in RowOrders(disk) :
         LET r == load(typemap, disk, order, row_orders)
         IN /\ tables' = r.tables
            /\ typemap' = r.tm
            /\ ret' = Call("load", r.res)
    /\ UNCHANGED disk

(***************************************************************************)
(* The arguments the calls are made with.                                  *)
(***************************************************************************)
Kw(key, value) == [key |-> key, val |-> value]

\* the names rows are added and renamed with: one that format_name changes
\* (to "x_") and one that it keeps
RowNameIn == {Str(<<"x", " ">>), Str(<<"y">>)}

\* the names rows are looked up by: as given, and as stored
RowTargetIn == RowNameIn \cup {Str(<<"x", "_">>)}

PropNameIn == {"a", "b"}

\* the names schema calls are made on: user properties and the protected ones
PropTargetIn == PropNameIn \cup protected_properties

TypeIn == {"checkbox"}

ColValueIn == {Bool(TRUE)}

ContentIn == {Str(<<" ", "h", " ">>)}

\* add_row(name=n) and add_row(n, a=v)
AddRowIn ==
    {<<(<<>>), <<Kw("name", n)>> >> : n \in RowNameIn}
        \cup {<< <<n>>, <<Kw("a", v)>> >> : n \in RowNameIn, v \in ColValueIn}

\* edit_row(..., name=n), edit_row(..., content=c), edit_row(..., a=v)
EditRowIn ==
    {<<Kw("name", n)>> : n \in RowNameIn}
        \cup {<<Kw("content", c)>> : c \in ContentIn}
        \cup {<<Kw("a", v)>> : v \in ColValueIn}

\* edit_property(..., name=n), edit_property(..., type=t)
EditPropertyIn ==
    {[name |-> <<n>>, type |-> <<>>] : n \in PropNameIn}
        \cup {[name |-> <<>>, type |-> <<"text">>]}

(***************************************************************************)
(* Spec: one table and the calls on it.                                    *)
(***************************************************************************)
Init ==
    /\ tables = <<NewTable(<<"t">>)>>
    /\ disk = EmptyDisk
    /\ typemap = InitTypemap
    /\ ret = Call("init", "None")

\* the bound of a specification: the tables, user properties and rows that
\* the next state may hold
Within(max_tables, max_props, max_rows) ==
    /\ Len(tables') <= max_tables
    /\ \A i \in DOMAIN tables' :
          /\ Len(tables'[i].props) <= 2 + max_props
          /\ Len(tables'[i].rows) <= max_rows

Next ==
    \/ \E n \in PropTargetIn, ty \in TypeIn :
          AddProperty(1, n, ty, NoStructure) /\ Within(1, MaxProps, MaxRows)
    \/ \E n \in PropTargetIn, kw \in EditPropertyIn : EditProperty(1, n, kw)
    \/ \E n \in PropTargetIn : DelProperty(1, n)
    \/ \E in \in AddRowIn : AddRow(1, in[1], in[2]) /\ Within(1, MaxProps, MaxRows)
    \/ \E n \in RowTargetIn, kw \in EditRowIn : EditRow(1, n, kw)
    \/ \E n \in RowTargetIn : DeleteRow(1, n)
    \/ \E n \in RowTargetIn : GetRow(1, n)

Spec == Init /\ [][Next]_vars

(***************************************************************************)
(* SpecTypes: one table, a property `a` of any registered type, and rows   *)
(* added with a value of any kind for it.                                  *)
(***************************************************************************)
\* the values add_row is given for the column: strs that convert() turns into
\* nothing, a number and a bool, and values of the other kinds; the list of
\* one member names the row `y`, which the table may or may not hold
ValueIn ==
    {Str(<<"h">>), Str(<<"7">>), Str(<<"T", "r", "u", "e">>), Bool(TRUE), Float(1), PyInt(1),
     List(<<>>), List(<<Str(<<"y">>)>>), None}

NextTypes ==
    \/ \E ty \in TypeNames :
          AddProperty(1, "a", ty, NoStructure) /\ Within(1, TyMaxProps, TyMaxRows)
    \/ AddProperty(1, "a", "relation", Str(<<"t">>)) /\ Within(1, TyMaxProps, TyMaxRows)
    \/ DelProperty(1, "a")
    \/ \E n \in RowNameIn, v \in ValueIn :
          AddRow(1, <<n>>, <<Kw("a", v)>>) /\ Within(1, TyMaxProps, TyMaxRows)
    \/ \E n \in RowNameIn : AddRow(1, <<n>>, <<>>) /\ Within(1, TyMaxProps, TyMaxRows)
    \/ \E n \in RowTargetIn : DeleteRow(1, n)

SpecTypes == Init /\ [][NextTypes]_vars

(***************************************************************************)
(* SpecConvert: TextTablePropertyType.convert applied to strings.          *)
(***************************************************************************)
ConvertChars == {"h", "7", "0", ".", " "}

\* the strings convert is given: every string over ConvertChars up to
\* ConvMaxLen, and the words for the booleans in several letter cases
ConvertIn ==
    UNION {[1..k -> ConvertChars] : k \in 0..ConvMaxLen}
        \cup {<<"t", "r", "u", "e">>, <<"T", "r", "u", "e">>, <<"T", "R", "U", "E">>,
               <<"f", "a", "l", "s", "e">>, <<"F", "a", "l", "s", "e">>,
               <<"F", "A", "L", "S", "E">>, <<"t", "r", "u", "e", "7">>}

\* prop.type.convert(value): ret records the argument and the value returned
Convert(value) ==
    /\ ret' = [op |-> "convert", arg |-> value, res |-> convert(value)]
    /\ UNCHANGED <<tables, disk, typemap>>

NextConvert == \E value \in ConvertIn : Convert(value)

SpecConvert == Init /\ [][NextConvert]_vars

(***************************************************************************)
(* SpecDb: a database on an empty path, its tables, save() and load().     *)
(***************************************************************************)
\* table names: one that format_name keeps and one that it changes
TableNameIn == {<<"t">>, <<"a", " ", "b">>}

\* add_row(name="x ", content=" h "): a name that format_name changes and a
\* content with blanks around it
DbAddRowIn ==
    { <<(<<>>), <<Kw("name", Str(<<"x", " ">>)), Kw("content", Str(<<" ", "h", " ">>))>> >> }

\* the row's name as stored
DbRowTargetIn == {Str(<<"x", "_">>)}

InitDb ==
    /\ tables = <<>>
    /\ disk = EmptyDisk
    /\ typemap = InitTypemap
    /\ ret = Call("init", "None")

NextDb ==
    \/ \E n \in TableNameIn : AddTable(n) /\ Within(DbMaxTables, DbMaxProps, DbMaxRows)
    \/ \E n \in TableNameIn : DeleteTable(n)
    \/ \E i \in DOMAIN tables :
          AddProperty(i, "a", "checkbox", NoStructure)
              /\ Within(DbMaxTables, DbMaxProps, DbMaxRows)
    \/ \E i \in DOMAIN tables : \E in \in DbAddRowIn :
          AddRow(i, in[1], in[2]) /\ Within(DbMaxTables, DbMaxProps, DbMaxRows)
    \/ \E i \in DOMAIN tables : \E n \in DbRowTargetIn : DeleteRow(i, n)
    \/ Save
    \/ Load

SpecDb == InitDb /\ [][NextDb]_vars

(***************************************************************************)
(* SpecHidden: a database opened on a path that holds a hidden directory   *)
(* `.g` with one file in it; TextDb(path) has run load().                  *)
(***************************************************************************)
HiddenDir == <<".", "g">>

InitHidden ==
    /\ tables = <<>>
    /\ disk = [root |-> TRUE, propsdir |-> FALSE,
               dirs |-> (HiddenDir :> (<<"c">> :> [kind |-> "plain", header |-> <<>>,
                                                  body |-> <<"h">>])),
               descs |-> <<>>]
    /\ typemap = InitTypemap
    /\ ret = Call("load", "self")

SpecHidden == InitHidden /\ [][NextDb]_vars

(***************************************************************************)
(* SpecFiles: a database opened on a path that holds a directory `t` with  *)
(* two row files written by hand: `c`.md without a header block, of the    *)
(* two lines "h" and "i", and `d`.md with an empty header block followed   *)
(* by the line "h".  TextDb(path) has run load().                          *)
(***************************************************************************)
FilesDisk ==
    [root |-> TRUE, propsdir |-> FALSE,
     dirs |-> (<<"t">> :> (<<"c">> :> [kind |-> "plain", header |-> <<>>,
                                       body |-> <<"h", "\n", "i">>]
                           @@ <<"d">> :> [kind |-> "header", header |-> <<>>,
                                          body |-> <<"h">>])),
     descs |-> <<>>]

InitFiles ==
    /\ disk = FilesDisk
    /\ \E order \in Orders(DOMAIN FilesDisk.dirs) : \E row_orders \in RowOrders(FilesDisk) :
         LET r == load(InitTypemap, FilesDisk, order, row_orders)
         IN /\ tables = r.tables
            /\ typemap = r.tm
            /\ ret = Call("load", r.res)

SpecFiles == InitFiles /\ [][NextDb]_vars

(***************************************************************************)
(* SpecStruct: a database on an empty path with tables `t` and `u` and     *)
(* relation properties added with a structure {'target': ...} or without   *)
(* one; save() and load().  A structure is modelled by its payload.        *)
(***************************************************************************)
StructTableIn == {<<"t">>, <<"u">>}

\* {'target': 't'} and {'target': 'u'}
StructIn == {Str(<<"t">>), Str(<<"u">>)}

NextStruct ==
    \/ \E n \in StructTableIn : AddTable(n) /\ Within(StMaxTables, StMaxProps, 0)
    \/ \E i \in DOMAIN tables : \E n \in PropNameIn, st \in StructIn \cup {NoStructure} :
          AddProperty(i, n, "relation", st) /\ Within(StMaxTables, StMaxProps, 0)
    \/ \E i \in DOMAIN tables : \E n \in PropNameIn : DelProperty(i, n)
    \/ \E n \in StructTableIn : DeleteTable(n)
    \/ Save
    \/ Load

SpecStruct == InitDb /\ [][NextStruct]_vars

(***************************************************************************)
(* The claims.                                                             *)
(***************************************************************************)
RowName(row) == Get(row.cols, "name")

\* C1: every row's set of column names equals the table's set of property
\* names, after any sequence of schema and row calls.
C1_RowsMatchSchema ==
    \A i \in DOMAIN tables : \A j \in DOMAIN tables[i].rows :
        KeySet(tables[i].rows[j].cols) = PropNameSet(tables[i])

\* C2: no two rows of a table have the same name value.
C2_UniqueRowNames ==
    \A i \in DOMAIN tables : \A j, k \in DOMAIN tables[i].rows :
        j # k => RowName(tables[i].rows[j]) # RowName(tables[i].rows[k])

\* the name an add_row call gives
AddRowName(args, kwargs) == IF args # <<>> THEN args[1] ELSE Get(kwargs, "name")

\* a row of t has the formatted form of name as its name
NameTaken(t, name) ==
    \E j \in DOMAIN t.rows : RowName(t.rows[j]) = Str(FormatChars(name.v))

\* C8: add_row with a name whose formatted form is the name of an existing
\* row returns False, raises nothing and leaves the table as it was.
C8_DuplicateAddRowRejected ==
    [][\A in \in AddRowIn :
          (/\ ret'.op = "add_row"
           /\ NameTaken(tables[1], AddRowName(in[1], in[2]))
           /\ AddRow(1, in[1], in[2]))
              => (ret'.res = "False" /\ tables' = tables)]_vars

\* C8's case: an add_row that was rejected on a table with a row
C8_Witness ==
    ret.op = "add_row" /\ ret.res = "False" /\ tables[1].rows # <<>>

\* edit_property(old, name=new) on the table
Renamed(old, new) == EditProperty(1, old, [name |-> <<new>>, type |-> <<>>])

ColumnIndex(cols, key) == CHOOSE i \in DOMAIN cols : cols[i].key = key

\* in row j the value under old moved to new, at old's place, and old is gone
ValueMoved(j, old, new) ==
    LET before == tables[1].rows[j].cols
        after == tables'[1].rows[j].cols
    IN /\ Has(after, new)
       /\ Get(after, new) = Get(before, old)
       /\ ColumnIndex(after, new) = ColumnIndex(before, old)
       /\ ~Has(after, old)

\* C9: renaming a property old to any other name new moves, in
\* every row, the value under old to new, at the same column position, and
\* old is no longer a column.
C9_RenameMovesValue ==
    [][\A old, new \in PropNameIn :
          (/\ ret'.op = "edit_property"
           /\ old # new
           /\ old \in PropNameSet(tables[1])
           /\ Renamed(old, new))
              => \A j \in DOMAIN tables[1].rows :
                    Has(tables[1].rows[j].cols, old) => ValueMoved(j, old, new)]_vars

\* the columns of a row as a mapping
ColsOf(row) == [key \in KeySet(row.cols) |-> Get(row.cols, key)]

\* the same table names, and per table the same rows with the same values
SameModel(tabs1, tabs2) ==
    /\ TableNameSet(tabs1) = TableNameSet(tabs2)
    /\ \A name \in TableNameSet(tabs1) :
          {ColsOf(get_table(tabs1, name).rows[j]) : j \in DOMAIN get_table(tabs1, name).rows}
            = {ColsOf(get_table(tabs2, name).rows[j]) : j \in DOMAIN get_table(tabs2, name).rows}

\* C3: save() followed by a load of the same path gives the same table
\* names, the same rows and the same column values.
C3_RoundTrip ==
    [][(ret.op = "save" /\ ret.res = "True" /\ ret'.op = "load")
          => (ret'.res = "self" /\ SameModel(tables, tables'))]_vars

\* the directories on disk that are no in-memory table
StaleDirs == DOMAIN disk.dirs \ TableNameSet(tables)

\* C4: save() with a directory on disk that is no in-memory table removes
\* it and its descriptor, writes every in-memory table and returns True, so
\* that the directories are those of the in-memory tables.
C4_SaveSyncsTables ==
    [][(ret'.op = "save" /\ StaleDirs # {})
          => /\ ret'.res = "True"
             /\ DOMAIN disk'.dirs = {FormatChars(tables[i].name) : i \in DOMAIN tables}
             /\ \A dir \in StaleDirs : dir \notin DOMAIN disk'.descs]_vars

\* C5: a second save() right after a successful one succeeds and leaves the
\* tree as the first left it.
C5_SaveIdempotent ==
    [][(ret.op = "save" /\ ret.res = "True" /\ ret'.op = "save")
          => (ret'.res = "True" /\ disk' = disk)]_vars

\* C6: after save(), a table that was on disk and in memory has a file for
\* each of its rows and no other file, and a table that had no directory has
\* its directory and its descriptor.
C6_SaveReconcilesRows ==
    [][ret'.op = "save"
          => \A i \in DOMAIN tables :
                LET name == tables[i].name
                    table == get_table(tables, name)
                    row_names == {RowName(table.rows[j]) : j \in DOMAIN table.rows}
                IN IF name \in DOMAIN disk.dirs
                   THEN /\ name \in DOMAIN disk'.dirs
                        /\ {Str(stem) : stem \in DOMAIN disk'.dirs[name]} = row_names
                   ELSE /\ FormatChars(name) \in DOMAIN disk'.dirs
                        /\ name \in DOMAIN disk'.descs]_vars

C10_EditRowReplacesContent ==
    [][\A n \in RowTargetIn, c \in ContentIn :
          (/\ ret'.op = "edit_row"
           /\ ret'.res = "None"
           /\ EditRow(1, n, <<Kw("content", c)>>))
              => LET row == tables'[1].rows[get_row(tables[1], n).index]
                 IN /\ Get(row.cols, "content") = Str(Strip(c.v))
                    /\ convert_to_markdown(row).file.body = Strip(c.v)]_vars

\* a schema call on the property n of the table
SchemaCall(n) ==
    \/ \E ty \in TypeIn : AddProperty(1, n, ty, NoStructure)
    \/ \E kw \in EditPropertyIn : EditProperty(1, n, kw)
    \/ DelProperty(1, n)

\* C11: add_property, edit_property and del_property called on `name` or
\* `content` return False and leave the schema and the rows as they were, and
\* the schema of every table always holds both `name` and `content`.
C11_ReservedProperties ==
    /\ [](\A i \in DOMAIN tables : protected_properties \subseteq PropNameSet(tables[i]))
    /\ [][\A n \in protected_properties :
            (/\ ret'.op \in {"add_property", "edit_property", "del_property"}
             /\ SchemaCall(n))
                => (ret'.res = "False" /\ tables' = tables)]_vars

\* C11's case: a del_property on a protected property of a table with rows
C11_Witness ==
    ret.op = "del_property" /\ ret.res = "False" /\ tables[1].rows # <<>>

\* no row of t has the name as given
NoRowNamed(t, name) == \A j \in DOMAIN t.rows : RowName(t.rows[j]) # name

\* C12: when no row has the given name, get_row returns None and raises
\* nothing, edit_row raises IndexError, and both leave the table as it was.
C12_LookupMissEditMiss ==
    [][\A n \in RowTargetIn :
          /\ (/\ ret'.op = "get_row"
               /\ NoRowNamed(tables[1], n)
               /\ GetRow(1, n))
                  => (ret'.res = "None" /\ tables' = tables)
          /\ (/\ ret'.op = "edit_row"
               /\ NoRowNamed(tables[1], n)
               /\ \E kw \in EditRowIn : EditRow(1, n, kw))
                  => (ret'.res = "IndexError" /\ tables' = tables)]_vars

\* C12's case: an edit_row that missed on a table with rows
C12_Witness ==
    ret.op = "edit_row" /\ ret.res = "IndexError" /\ tables[1].rows # <<>>

\* the table t is among tabs, with its schema and its row names
ReadBack(t, tabs) ==
    \E k \in DOMAIN tabs :
        /\ tabs[k].name = t.name
        /\ {tabs[k].props[j] : j \in DOMAIN tabs[k].props} = {t.props[j] : j \in DOMAIN t.props}
        /\ {RowName(tabs[k].rows[j]) : j \in DOMAIN tabs[k].rows}
              = {RowName(t.rows[j]) : j \in DOMAIN t.rows}

\* C13: the directory and descriptor that save() wrote for a table, also one
\* whose name format_name changes, are kept by a later save() and are read
\* back by load() as that table with its schema and rows.
C13_NamesMatchEntries ==
    [][(ret.op = "save" /\ ret.res = "True")
          => /\ ret'.op = "save"
                  => \A i \in DOMAIN tables :
                        /\ FormatChars(tables[i].name) \in DOMAIN disk'.dirs
                        /\ tables[i].name \in DOMAIN disk'.descs
             /\ ret'.op = "load"
                  => \A i \in DOMAIN tables : ReadBack(tables[i], tables')]_vars

\* C14: the names of the in-memory tables are pairwise distinct; add_table
\* with the name of an existing table makes no second table of that name.
C14_UniqueTableNames ==
    \A i, k \in DOMAIN tables : i # k => tables[i].name # tables[k].name

\* the hidden directories under the root
Hidden(d) == {x \in DOMAIN d.dirs : x # <<>> /\ x[1] = "."}

\* C15: load() makes no table from a hidden directory, and save() neither
\* removes nor changes a hidden directory or its files.
C15_HiddenEntriesIgnored ==
    [][/\ ret'.op = "load"
            => \A i \in DOMAIN tables' : tables'[i].name \notin Hidden(disk)
       /\ ret'.op = "save"
            => \A x \in Hidden(disk) :
                  x \in DOMAIN disk'.dirs /\ disk'.dirs[x] = disk.dirs[x]]_vars

\* the value is not of the kind that the type declares and, when a str, is
\* not converted to that kind either
Uncoercible(value, type) ==
    /\ TypeOf(value) # CoreKind(type.name)
    /\ TypeOf(value) = "str" => TypeOf(convert(value.v)) # CoreKind(type.name)

\* C16: add_row with a value for a declared property that is not of the
\* property's kind and cannot be coerced to it raises TypeError and adds no
\* row.
C16_MismatchRejected ==
    [][\A n \in RowNameIn, v \in ValueIn :
          (/\ ret'.op = "add_row"
           /\ "a" \in PropNameSet(tables[1])
           /\ Uncoercible(v, get_property(tables[1], "a").type)
           /\ ~NameTaken(tables[1], n)
           /\ AddRow(1, <<n>>, <<Kw("a", v)>>))
              => (ret'.res = "TypeError" /\ tables' = tables)]_vars

\* digits with at most one decimal point among them
NumericLooking(s) ==
    /\ \E i \in DOMAIN s : s[i] \in Digits
    /\ \A i \in DOMAIN s : s[i] \in Digits \cup {"."}
    /\ Cardinality({i \in DOMAIN s : s[i] = "."}) <= 1

\* C17: convert returns a bool for "true" and "false" in any letter case, a
\* number for a numeric-looking string, and any other string unchanged.
C17_ConvertKeepsOtherStrings ==
    ret.op = "convert"
        => IF Lower(ret.arg) = <<"t", "r", "u", "e">> THEN ret.res = Bool(TRUE)
           ELSE IF Lower(ret.arg) = <<"f", "a", "l", "s", "e">> THEN ret.res = Bool(FALSE)
           ELSE IF NumericLooking(ret.arg) THEN TypeOf(ret.res) = "float"
           ELSE ret.res = Str(ret.arg)

\* C18: every registered type has a default value: add_property of any
\* registered type on a table completes and leaves every row with the new
\* column, and add_row on a table having a property of a registered type
\* completes and stores a row holding that column.
C18_DefaultsForEveryType ==
    [][/\ \A ty \in TypeNames :
            (ret'.op = "add_property" /\ AddProperty(1, "a", ty, NoStructure))
               => /\ ret'.res = "None"
                  /\ \A r \in DOMAIN tables'[1].rows : Has(tables'[1].rows[r].cols, "a")
       /\ \A n \in RowNameIn :
            (/\ ret'.op = "add_row"
             /\ "a" \in PropNameSet(tables[1])
             /\ ~NameTaken(tables[1], n)
             /\ AddRow(1, <<n>>, <<>>))
               => /\ ret'.res = "None"
                  /\ Len(tables'[1].rows) = Len(tables[1].rows) + 1
                  /\ \A r \in DOMAIN tables'[1].rows : Has(tables'[1].rows[r].cols, "a")]_vars

\* C19: after load(), the content of a row read from a file is the text of
\* the file when the file has no header block (every line, the first one
\* included), and the text after the closing marker when it has one; blanks
\* around the text are not counted.
C19_ContentIsFileText ==
    ret.op = "load"
        => \A i \in DOMAIN tables : \A j \in DOMAIN tables[i].rows :
              LET dirname == FormatChars(tables[i].name)
                  stem == RowName(tables[i].rows[j]).v
              IN (dirname \in DOMAIN disk.dirs /\ stem \in DOMAIN disk.dirs[dirname])
                    => Strip(Get(tables[i].rows[j].cols, "content").v)
                          = Strip(disk.dirs[dirname][stem].body)

\* the names of the rows of the tables named target
RowNamesOf(tabs, target) ==
    UNION { {RowName(tabs[i].rows[j]) : j \in DOMAIN tabs[i].rows} :
               i \in {k \in DOMAIN tabs : tabs[k].name = target} }

\* C20: every member that add_row accepts into the value of a relation
\* column names a row that the relation's target table holds at that time.
C20_RelationMembersExist ==
    [][\A n \in RowNameIn, v \in ValueIn :
         (/\ ret'.op = "add_row"
          /\ ret'.res = "None"
          /\ TypeOf(v) = "list"
          /\ "a" \in PropNameSet(tables[1])
          /\ get_property(tables[1], "a").type.name = "relation"
          /\ AddRow(1, <<n>>, <<Kw("a", v)>>))
            => \A m \in DOMAIN v.v : v.v[m] \in RowNamesOf(tables, typemap["relation"].v)]_vars

\* in row j every column other than old holds the value it held before
OthersKept(j, old) ==
    LET before == tables[1].rows[j].cols
        after == tables'[1].rows[j].cols
    IN \A key \in KeySet(before) \ {old} :
          Has(after, key) /\ Get(after, key) = Get(before, key)

\* C21: renaming a property old to another name new leaves, in every row,
\* every column other than old (name and content among them) with the value
\* it had, and a row that formatted its name column still does.
C21_RenameKeepsOtherColumns ==
    [][\A old, new \in PropNameIn :
          (/\ ret'.op = "edit_property"
           /\ old # new
           /\ old \in PropNameSet(tables[1])
           /\ Renamed(old, new))
              => \A j \in DOMAIN tables[1].rows :
                    /\ OthersKept(j, old)
                    /\ tables[1].rows[j].formats => tables'[1].rows[j].formats]_vars

\* prop.type.structure: the structure of the property's type object
StructureOf(prop, tm) == tm[prop.type.name]

\* the mapping that save() writes to the descriptor of table t
DescriptorOf(t, tm) == PropertiesSimple(t.props, tm, Len(t.props)).map

\* C22: adding a property of a parameterized type with a structure, to any
\* table and under a name the table does not have yet, leaves every property
\* added before with the structure it had, in memory and in the descriptor
\* that save() writes for its table.
C22_StructurePerProperty ==
    [][(/\ ret'.op = "add_property"
        /\ ret'.res = "None"
        /\ \A k \in DOMAIN tables' : Cardinality(PropNameSet(tables'[k])) = Len(tables'[k].props))
          => \A k \in DOMAIN tables : \A p \in DOMAIN tables[k].props :
                is_custom(tables[k].props[p].type)
                   => /\ StructureOf(tables'[k].props[p], typemap')
                            = StructureOf(tables[k].props[p], typemap)
                      /\ DescriptorOf(tables'[k], typemap')[tables[k].props[p].name].structure
                            = DescriptorOf(tables[k], typemap)[tables[k].props[p].name].structure]_vars

\* C23: while the table holds the row that add_row stored for the name n,
\* get_row(n), edit_row(n, ...) and delete_row(n) find that row, also for a
\* name n that format_name changes.
C23_LookupFormatsName ==
    [][\A n \in RowNameIn :
          NameTaken(tables[1], n)
             => /\ (ret'.op = "get_row" /\ GetRow(1, n)) => ret'.res = "row"
                /\ \A kw \in EditRowIn :
                      (ret'.op = "edit_row" /\ EditRow(1, n, kw)) => ret'.res = "None"
                /\ (ret'.op = "delete_row" /\ DeleteRow(1, n))
                      => (ret'.res = "None" /\ Len(tables'[1].rows) = Len(tables[1].rows) - 1)]_vars

====
